---- MODULE Spec2Model ----
(***************************************************************************)
(* Model of the devapack release / install scripts:                        *)
(*   scripts/version/bump.ts, fetch.ts, sync.ts and index.ts (the release  *)
(*   pipeline), scripts/postinstall.ts (binary download) and               *)
(*   scripts/version/copy-to-binary.ts (version record relocation).        *)
(*                                                                         *)
(* Strings that the code inspects character by character (version strings, *)
(* Cargo.toml text, path names) are sequences of one-character strings.    *)
(* The keyword  version  of Cargo.toml is one atom, "version".  An optional *)
(* JSON field is a sequence of length 0 (absent) or 1 (present).           *)
(***************************************************************************)
EXTENDS Integers, Sequences, FiniteSets

VARIABLES
    versionFile,   \* project-version.json: [exists, version, build, lastCommit]
    pkgJson,       \* package.json: [exists, name, version]
    cargoToml,     \* Cargo.toml: [exists, text]
    call,          \* the last completed call of bumpVersion/fetchVersion/syncVersion
    pre,           \* the three files as they were when that call started
    rel,           \* the release command (index.ts): its position, argument, output and exit code
    post,          \* the postinstall script's process state
    cp             \* the copy-to-binary script's process state

vars == <<versionFile, pkgJson, cargoToml, call, pre, rel, post, cp>>

None == <<>>
Some(x) == <<x>>

(***************************************************************************)
(* Characters                                                              *)
(***************************************************************************)
Digits == <<"0", "1", "2", "3", "4", "5", "6", "7", "8", "9">>

Letters == {"a", "b", "c", "r", "v", "_"}

\* \d of a JavaScript regular expression
IsDigit(c) == \E i \in 1..Len(Digits) : Digits[i] = c

\* \w of a JavaScript regular expression (over the characters of the model)
IsWord(c) == IsDigit(c) \/ c \in Letters

DigitValue(c) == (CHOOSE i \in 1..Len(Digits) : Digits[i] = c) - 1

\* +major : the decimal digit string as a number
RECURSIVE ToNumber(_)
ToNumber(s) ==
    IF s = <<>> THEN 0
    ELSE ToNumber(SubSeq(s, 1, Len(s) - 1)) * Len(Digits) + DigitValue(s[Len(s)])

\* `${n}` : the number as a decimal string, without leading zeros
RECURSIVE NumberToString(_)
NumberToString(n) ==
    IF n < Len(Digits) THEN <<Digits[n + 1]>>
    ELSE NumberToString(n \div Len(Digits)) \o <<Digits[(n % Len(Digits)) + 1]>>

(***************************************************************************)
(* bump.ts                                                                 *)
(***************************************************************************)
\* the index of the first character at or after i that is not a digit (\d+ is greedy)
RECURSIVE SkipDigits(_, _)
SkipDigits(s, i) ==
    IF i <= Len(s) /\ IsDigit(s[i]) THEN SkipDigits(s, i + 1) ELSE i

NoMatch == [matched |-> FALSE, major |-> <<>>, minor |-> <<>>, patch |-> <<>>]

\* versionData.version.match(/^(\d+)\.(\d+)\.(\d+)(?:-([\w.]+))?$/)
versionRegex(s) ==
    LET a1 == SkipDigits(s, 1)
        b1 == SkipDigits(s, a1 + 1)
        c1 == SkipDigits(s, b1 + 1)
    IN  IF /\ a1 > 1 /\ a1 <= Len(s) /\ s[a1] = "."
           /\ b1 > a1 + 1 /\ b1 <= Len(s) /\ s[b1] = "."
           /\ c1 > b1 + 1
           /\ \/ c1 = Len(s) + 1
              \/ /\ c1 < Len(s)
                 /\ s[c1] = "-"
                 /\ \A k \in (c1 + 1)..Len(s) : IsWord(s[k]) \/ s[k] = "."
        THEN [matched |-> TRUE,
              major |-> SubSeq(s, 1, a1 - 1),
              minor |-> SubSeq(s, a1 + 1, b1 - 1),
              patch |-> SubSeq(s, b1 + 1, c1 - 1)]
        ELSE NoMatch

\* a switch that lost its default branch: every kind falls through to the write
kindRecognizedFallThrough(bumpType) == TRUE

\* the cases of the switch; any other kind reaches  default: process.exit(1)
kindRecognized(bumpType) == bumpType \in {"major", "minor", "patch"}

\* a minor bump that forgets to reset the patch component
nextVersionKeepsPatch(bumpType, major, minor, patch) ==
    CASE bumpType = "major" -> NumberToString(ToNumber(major) + 1) \o <<".", "0", ".", "0">>
      [] bumpType = "minor" -> major \o <<".">> \o NumberToString(ToNumber(minor) + 1) \o <<".">> \o patch
      [] bumpType = "patch" -> major \o <<".">> \o minor \o <<".">> \o NumberToString(ToNumber(patch) + 1)
      [] OTHER -> <<>>

\* the switch on bumpType; major, minor and patch are the matched substrings
nextVersion(bumpType, major, minor, patch) ==
    CASE bumpType = "major" -> NumberToString(ToNumber(major) + 1) \o <<".", "0", ".", "0">>
      [] bumpType = "minor" -> major \o <<".">> \o NumberToString(ToNumber(minor) + 1) \o <<".", "0">>
      [] bumpType = "patch" -> major \o <<".">> \o minor \o <<".">> \o NumberToString(ToNumber(patch) + 1)
      [] OTHER -> <<>>

\* a bump that writes a record holding the new version alone
bumpVersionFreshRecord(bumpType, file, ioFault) ==
    LET match == versionRegex(file.version)
        next == nextVersion(bumpType, match.major, match.minor, match.patch)
    IN  IF file.exists /\ ioFault = "none" /\ match.matched /\ kindRecognized(bumpType)
        THEN [outcome |-> "returned", ret |-> next,
              file |-> [file EXCEPT !.version = next, !.build = None, !.lastCommit = None],
              stderr |-> ""]
        ELSE [outcome |-> "threw", ret |-> <<>>, file |-> file, stderr |-> "failed"]

\* bumpVersion(bumpType, projectVersionPath): the outcome of the call, the value it
\* returns and the file it leaves.  ioFault names the file operation that raises.
bumpVersion(bumpType, file, ioFault) ==
    LET match == versionRegex(file.version)
        next == nextVersion(bumpType, match.major, match.minor, match.patch)
        fail(how, msg) == [outcome |-> how, ret |-> <<>>, file |-> file, stderr |-> msg]
    IN  IF ~file.exists \/ ioFault = "read" THEN fail("threw", "ENOENT")
        ELSE IF ~match.matched THEN fail("threw", "Invalid version format in project-version.json")
        ELSE IF bumpType = "" THEN fail("exited", "Please specify a version type (major, minor, patch)")
        ELSE IF ~kindRecognized(bumpType) THEN fail("exited", "Version type non-recognized (major, minor, patch)")
        ELSE IF ioFault = "write" THEN fail("threw", "EACCES")
        ELSE [outcome |-> "returned", ret |-> next,
              file |-> [file EXCEPT !.version = next], stderr |-> ""]

(***************************************************************************)
(* fetch.ts                                                                *)
(***************************************************************************)
\* a stamper that initialises an absent counter to 0 instead of counting the stamp
buildOrZeroAbsentStays(build) == IF build = None THEN 0 ELSE build[1] + 1

\* (data.build || 0) + 1 : an absent field and 0 are both falsy
buildOrZero(build) == (IF build = None \/ build[1] = 0 THEN 0 ELSE build[1]) + 1

\* a stamper for which a failing `git rev-parse HEAD` is fatal: nothing is written
fetchVersionGitFatal(file, git, ioFault) ==
    LET data == [file EXCEPT !.build = Some(buildOrZero(file.build)),
                             !.lastCommit = git]
    IN  IF ~file.exists \/ ioFault = "read" \/ git = None
        THEN [outcome |-> "threw", file |-> file, warned |-> FALSE]
        ELSE IF ioFault = "write"
        THEN [outcome |-> "threw", file |-> file, warned |-> FALSE]
        ELSE [outcome |-> "returned", file |-> data, warned |-> FALSE]

\* fetchVersion(projectVersionPath).  git is the output of `git rev-parse HEAD`,
\* or None when execSync raises.
fetchVersion(file, git, ioFault) ==
    LET data == [file EXCEPT !.build = Some(buildOrZero(file.build)),
                             !.lastCommit = IF git = None THEN file.lastCommit ELSE git]
    IN  IF ~file.exists \/ ioFault = "read"
        THEN [outcome |-> "threw", file |-> file, warned |-> FALSE]
        ELSE IF ioFault = "write"
        THEN [outcome |-> "threw", file |-> file, warned |-> git = None]
        ELSE [outcome |-> "returned", file |-> data, warned |-> git = None]

(***************************************************************************)
(* sync.ts                                                                 *)
(***************************************************************************)
\* \s of a JavaScript regular expression (over the characters of the model)
IsSpace(c) == c \in {" ", "\n"}

RECURSIVE SkipSpaces(_, _)
SkipSpaces(s, i) ==
    IF i <= Len(s) /\ IsSpace(s[i]) THEN SkipSpaces(s, i + 1) ELSE i

\* [^"]* is greedy: the index of the first quote at or after i, Len(s)+1 if none
RECURSIVE SkipNonQuote(_, _)
SkipNonQuote(s, i) ==
    IF i <= Len(s) /\ s[i] # "\"" THEN SkipNonQuote(s, i + 1) ELSE i

\* /(version\s*=\s*")[^"]*(")/ tried at position p
cargoRegexAt(s, p) ==
    LET e == SkipSpaces(s, p + 1)
        q == SkipSpaces(s, e + 1)
        w == SkipNonQuote(s, q + 1)
    IN  [ok |-> /\ p <= Len(s) /\ s[p] = "version"
                /\ e <= Len(s) /\ s[e] = "="
                /\ q <= Len(s) /\ s[q] = "\""
                /\ w <= Len(s),
         start |-> p, quote |-> q, last |-> w]

\* the leftmost match at or after p (the regular expression has no g flag)
RECURSIVE cargoRegexFrom(_, _)
cargoRegexFrom(s, p) ==
    IF p > Len(s) THEN [ok |-> FALSE, start |-> 0, quote |-> 0, last |-> 0]
    ELSE IF cargoRegexAt(s, p).ok THEN cargoRegexAt(s, p)
    ELSE cargoRegexFrom(s, p + 1)

\* a substitution that always reads two digits after "$" as a group number
RECURSIVE GetSubstitutionTwoDigits(_, _, _, _, _, _)
GetSubstitutionTwoDigits(t, i, matched, captures, before, after) ==
    IF i > Len(t) THEN <<>>
    ELSE IF t[i] # "$" \/ i = Len(t)
    THEN <<t[i]>> \o GetSubstitutionTwoDigits(t, i + 1, matched, captures, before, after)
    ELSE LET c == t[i + 1]
             two == i + 2 <= Len(t) /\ IsDigit(t[i + 2])
             nn == IF two THEN ToNumber(<<c, t[i + 2]>>) ELSE ToNumber(<<c>>)
             used == IF two THEN 3 ELSE 2
         IN  IF IsDigit(c)
             THEN (IF nn >= 1 /\ nn <= Len(captures) THEN captures[nn] ELSE <<>>)
                  \o GetSubstitutionTwoDigits(t, i + used, matched, captures, before, after)
             ELSE <<"$">> \o GetSubstitutionTwoDigits(t, i + 1, matched, captures, before, after)

\* String.prototype.replace's expansion of the replacement text t from index i:
\* $$, $&, $`, $', $n and $nn; a two-digit number that names no group falls back
\* to its first digit.
RECURSIVE GetSubstitution(_, _, _, _, _, _)
GetSubstitution(t, i, matched, captures, before, after) ==
    IF i > Len(t) THEN <<>>
    ELSE IF t[i] # "$" \/ i = Len(t)
    THEN <<t[i]>> \o GetSubstitution(t, i + 1, matched, captures, before, after)
    ELSE LET c == t[i + 1]
             two == i + 2 <= Len(t) /\ IsDigit(t[i + 2])
             nn == IF two THEN ToNumber(<<c, t[i + 2]>>) ELSE 0
             n == IF IsDigit(c) THEN DigitValue(c) ELSE 0
         IN  CASE c = "$" -> <<"$">> \o GetSubstitution(t, i + 2, matched, captures, before, after)
               [] c = "&" -> matched \o GetSubstitution(t, i + 2, matched, captures, before, after)
               [] c = "`" -> before \o GetSubstitution(t, i + 2, matched, captures, before, after)
               [] c = "'" -> after \o GetSubstitution(t, i + 2, matched, captures, before, after)
               [] IsDigit(c) /\ two /\ nn >= 1 /\ nn <= Len(captures) ->
                      captures[nn] \o GetSubstitution(t, i + 3, matched, captures, before, after)
               [] IsDigit(c) /\ ~(two /\ nn >= 1 /\ nn <= Len(captures)) /\ n >= 1 /\ n <= Len(captures) ->
                      captures[n] \o GetSubstitution(t, i + 2, matched, captures, before, after)
               [] OTHER -> <<"$">> \o GetSubstitution(t, i + 1, matched, captures, before, after)

\* a replace with the g flag: every match is rewritten
RECURSIVE cargoReplaceAll(_, _)
cargoReplaceAll(text, versionString) ==
    LET m == cargoRegexFrom(text, 1)
    IN  IF ~m.ok THEN text
        ELSE SubSeq(text, 1, m.quote) \o versionString \o <<"\"">>
             \o cargoReplaceAll(SubSeq(text, m.last + 1, Len(text)), versionString)

\* cargoToml.replace(/(version\s*=\s*")[^"]*(")/, `$1${versionString}$2`)
cargoReplace(text, versionString) ==
    LET m == cargoRegexFrom(text, 1)
        before == SubSeq(text, 1, m.start - 1)
        after == SubSeq(text, m.last + 1, Len(text))
        matched == SubSeq(text, m.start, m.last)
        captures == <<SubSeq(text, m.start, m.quote), SubSeq(text, m.last, m.last)>>
        template == <<"$", "1">> \o versionString \o <<"$", "2">>
    IN  IF ~m.ok THEN text
        ELSE before \o GetSubstitution(template, 1, matched, captures, before, after) \o after

\* a transactional synchroniser: package.json is put back when Cargo.toml fails
syncVersionRollsBack(file, pkg, cargo, ioFault) ==
    LET versionString == file.version
        pkg2 == [pkg EXCEPT !.version = Some(versionString)]
        cargo2 == [cargo EXCEPT !.text = cargoReplace(cargo.text, versionString)]
    IN  IF ~file.exists \/ ioFault = "readVersion" \/ ~pkg.exists \/ ioFault = "writePkg"
        THEN [outcome |-> "threw", pkg |-> pkg, cargo |-> cargo]
        ELSE IF ~cargo.exists \/ ioFault = "writeCargo"
        THEN [outcome |-> "threw", pkg |-> pkg, cargo |-> cargo]
        ELSE [outcome |-> "returned", pkg |-> pkg2, cargo |-> cargo2]

\* syncVersion(projectVersionPath): package.json is parsed, set and rewritten, then
\* Cargo.toml is rewritten by pattern substitution.
syncVersion(file, pkg, cargo, ioFault) ==
    LET versionString == file.version
        pkg2 == [pkg EXCEPT !.version = Some(versionString)]
        cargo2 == [cargo EXCEPT !.text = cargoReplace(cargo.text, versionString)]
    IN  IF ~file.exists \/ ioFault = "readVersion" \/ ~pkg.exists \/ ioFault = "writePkg"
        THEN [outcome |-> "threw", pkg |-> pkg, cargo |-> cargo]
        ELSE IF ~cargo.exists \/ ioFault = "writeCargo"
        THEN [outcome |-> "threw", pkg |-> pkg2, cargo |-> cargo]
        ELSE [outcome |-> "returned", pkg |-> pkg2, cargo |-> cargo2]

(***************************************************************************)
(* The files, and single calls of the three exported functions             *)
(***************************************************************************)
MaxDigits == 2
MaxBuild == 4
MaxSegs == 4

MissingVersionFile == [exists |-> FALSE, version |-> <<>>, build |-> None, lastCommit |-> None]
MissingPkg == [exists |-> FALSE, name |-> "", version |-> None]
MissingCargo == [exists |-> FALSE, text |-> <<>>]

VersionRecord(v, b, c) == [exists |-> TRUE, version |-> v, build |-> b, lastCommit |-> c]

\* version components: digit strings with leading zeros and carries
Components == UNION {[1..k -> {"0", "9"}] : k \in 1..MaxDigits}

Prereleases == {<<>>, <<"-", "r", "c", ".", "1">>, <<"-", "_">>}

ValidVersions ==
    {a \o <<".">> \o b \o <<".">> \o c \o p : a \in Components, b \in Components,
                                             c \in Components, p \in Prereleases}

InvalidVersions ==
    { <<>>,
      <<"1", ".", "2">>,
      <<"v", "1", ".", "2", ".", "3">>,
      <<"1", ".", "2", ".", "3", ".", "4">>,
      <<"1", ".", "2", ".", "3", "-">>,
      <<"1", ".", "2", ".", "3", "-", "a", "-", "b">>,
      <<"1", ".", "2", ".", "3", "+", "b">>,
      <<"1", ".", "2", ".", "3", "\n">>,
      <<"1", ".", ".", "3">>,
      <<".", "1", ".", "2">>,
      <<"1", ".", "2", ".">>,
      <<"1", ".", "a", ".", "3">> }

BumpTypes == {"major", "minor", "patch", "", "bogus", "Major"}

\* three release versions whose first digits make "$1" + version read as "$10", "$11", "$20"
SyncVersions ==
    { <<"1", ".", "2", ".", "3">>,
      <<"1", "0", ".", "0", ".", "0", "-", "r", "c", ".", "1">>,
      <<"2", "0", ".", "0", ".", "9">> }

AssignLine == <<"version", "=", "\"", "0", "\"", "\n">>

Segments == {<<"rust-">>, <<"\"">>, <<" ">>, <<"=">>, <<"version">>, AssignLine}

RECURSIVE CargoTexts(_)
CargoTexts(n) ==
    IF n = 0 THEN {<<>>}
    ELSE CargoTexts(n - 1) \cup {t \o g : t \in CargoTexts(n - 1), g \in Segments}

Commits == {<<"c", "1">>, <<"c", "2">>}

NoCall ==
    [n |-> 0, op |-> "none", arg |-> "", fault |-> "none", git |-> None,
     outcome |-> "", ret |-> <<>>, stderr |-> "", warned |-> FALSE]

Files == [versionFile |-> versionFile, pkgJson |-> pkgJson, cargoToml |-> cargoToml]

RelOff ==
    [pc |-> "off", argv |-> None, bumpType |-> "", newVersion |-> <<>>, ran |-> <<>>,
     ok |-> <<>>, stdout |-> <<>>, stderr |-> <<>>, exitCode |-> None,
     fault |-> "none"]

PostOff == [pc |-> "off"]

CpOff == [pc |-> "off"]

\* a call bumpVersion(bumpType, path), the call.n + 1st call made on the files
BumpCall(bumpType, ioFault) ==
    LET r == bumpVersion(bumpType, versionFile, ioFault)
    IN  /\ versionFile' = r.file
        /\ call' = [NoCall EXCEPT !.n = call.n + 1, !.op = "bump", !.arg = bumpType,
                                  !.fault = ioFault, !.outcome = r.outcome,
                                  !.ret = r.ret, !.stderr = r.stderr]
        /\ pre' = Files
        /\ UNCHANGED <<pkgJson, cargoToml, rel, post, cp>>

\* one call bumpVersion(bumpType, path)
Bump(bumpType, ioFault) == call.n = 0 /\ BumpCall(bumpType, ioFault)

\* a call fetchVersion(path)
StampCall(git, ioFault) ==
    LET r == fetchVersion(versionFile, git, ioFault)
    IN  /\ versionFile' = r.file
        /\ call' = [NoCall EXCEPT !.n = call.n + 1, !.op = "stamp", !.fault = ioFault,
                                  !.git = git, !.outcome = r.outcome, !.warned = r.warned]
        /\ pre' = Files
        /\ UNCHANGED <<pkgJson, cargoToml, rel, post, cp>>

\* one call fetchVersion(path)
Stamp(git, ioFault) == call.n = 0 /\ StampCall(git, ioFault)

\* a call syncVersion(path)
SyncCall(ioFault) ==
    LET r == syncVersion(versionFile, pkgJson, cargoToml, ioFault)
    IN  /\ pkgJson' = r.pkg
        /\ cargoToml' = r.cargo
        /\ call' = [NoCall EXCEPT !.n = call.n + 1, !.op = "sync", !.fault = ioFault,
                                  !.outcome = r.outcome]
        /\ pre' = Files
        /\ UNCHANGED <<versionFile, rel, post, cp>>

\* one call syncVersion(path)
Sync(ioFault) == call.n = 0 /\ SyncCall(ioFault)

OtherIdle == call = NoCall /\ rel = RelOff /\ post = PostOff /\ cp = CpOff

InitBump ==
    /\ versionFile \in {VersionRecord(v, Some(1), None) : v \in ValidVersions \cup InvalidVersions}
                       \cup {MissingVersionFile}
    /\ pkgJson = MissingPkg
    /\ cargoToml = MissingCargo
    /\ pre = Files
    /\ OtherIdle

NextBump == \E bumpType \in BumpTypes, ioFault \in {"none", "read", "write"} : Bump(bumpType, ioFault)

SpecBump == InitBump /\ [][NextBump]_vars

InitStamp ==
    /\ versionFile \in {VersionRecord(v, b, c) :
                            v \in SyncVersions,
                            b \in {None} \cup {Some(k) : k \in 0..MaxBuild},
                            c \in {None, Some(<<"c", "0">>)}}
                       \cup {MissingVersionFile}
    /\ pkgJson = MissingPkg
    /\ cargoToml = MissingCargo
    /\ pre = Files
    /\ OtherIdle

NextStamp ==
    \E git \in {None} \cup {Some(c) : c \in Commits}, ioFault \in {"none", "read", "write"} :
        Stamp(git, ioFault)

SpecStamp == InitStamp /\ [][NextStamp]_vars

InitSync ==
    /\ versionFile \in {VersionRecord(v, Some(1), None) : v \in SyncVersions}
    /\ pkgJson \in {[exists |-> TRUE, name |-> "devapack", version |-> Some(<<"0", ".", "0", ".", "1">>)],
                    [exists |-> TRUE, name |-> "devapack", version |-> None]}
    /\ cargoToml \in {[exists |-> TRUE, text |-> t] : t \in CargoTexts(MaxSegs)} \cup {MissingCargo}
    /\ pre = Files
    /\ OtherIdle

NextSync == \E ioFault \in {"none", "readVersion", "writePkg", "writeCargo"} : Sync(ioFault)

SpecSync == InitSync /\ [][NextSync]_vars

(***************************************************************************)
(* The version grammar MAJOR.MINOR.PATCH[-PRERELEASE], stated on its own   *)
(***************************************************************************)
DashIndex(s) ==
    IF \E i \in 1..Len(s) : s[i] = "-"
    THEN CHOOSE i \in 1..Len(s) : s[i] = "-" /\ \A j \in 1..(i - 1) : s[j] # "-"
    ELSE Len(s) + 1

CoreOf(s) == SubSeq(s, 1, DashIndex(s) - 1)

SuffixOf(s) == SubSeq(s, DashIndex(s), Len(s))

DotsOf(s) == {i \in 1..Len(s) : s[i] = "."}

FirstDot(s) == CHOOSE i \in DotsOf(s) : \A j \in DotsOf(s) : i <= j

LastDot(s) == CHOOSE i \in DotsOf(s) : \A j \in DotsOf(s) : j <= i

IsNumeral(s) == Len(s) >= 1 /\ \A i \in 1..Len(s) : IsDigit(s[i])

MajorOf(s) == SubSeq(CoreOf(s), 1, FirstDot(CoreOf(s)) - 1)

MinorOf(s) == SubSeq(CoreOf(s), FirstDot(CoreOf(s)) + 1, LastDot(CoreOf(s)) - 1)

PatchOf(s) == SubSeq(CoreOf(s), LastDot(CoreOf(s)) + 1, Len(CoreOf(s)))

IsGrammarVersion(s) ==
    /\ Cardinality(DotsOf(CoreOf(s))) = 2
    /\ IsNumeral(MajorOf(s)) /\ IsNumeral(MinorOf(s)) /\ IsNumeral(PatchOf(s))
    /\ \/ SuffixOf(s) = <<>>
       \/ /\ Len(SuffixOf(s)) >= 2
          /\ \A k \in 2..Len(SuffixOf(s)) : IsWord(SuffixOf(s)[k]) \/ SuffixOf(s)[k] = "."

Triple(s) == <<ToNumber(MajorOf(s)), ToNumber(MinorOf(s)), ToNumber(PatchOf(s))>>

Bumped(t, kind) ==
    CASE kind = "major" -> <<t[1] + 1, 0, 0>>
      [] kind = "minor" -> <<t[1], t[2] + 1, 0>>
      [] kind = "patch" -> <<t[1], t[2], t[3] + 1>>

BumpCase ==
    /\ call.op = "bump"
    /\ pre.versionFile.exists
    /\ call.fault = "none"
    /\ IsGrammarVersion(pre.versionFile.version)
    /\ call.arg \in {"major", "minor", "patch"}

\* C1: for a stored version X.Y.Z or X.Y.Z-PRERELEASE, bumpVersion returns and
\* stores (X+1).0.0 for major, X.(Y+1).0 for minor and X.Y.(Z+1) for patch, and the
\* result carries no prerelease suffix.
C1_BumpYieldsNextVersion ==
    BumpCase =>
        /\ call.outcome = "returned"
        /\ versionFile.version = call.ret
        /\ IsGrammarVersion(call.ret)
        /\ SuffixOf(call.ret) = <<>>
        /\ Triple(call.ret) = Bumped(Triple(pre.versionFile.version), call.arg)

\* a minor bump of a prerelease version whose minor component carries (9 -> 10)
C1_Witness ==
    /\ BumpCase
    /\ call.arg = "minor"
    /\ pre.versionFile.version = <<"0", "9", ".", "9", ".", "9", "-", "r", "c", ".", "1">>
    /\ versionFile.version = <<"0", "9", ".", "1", "0", ".", "0">>

BumpFailureCase ==
    /\ call.op = "bump"
    /\ pre.versionFile.exists
    /\ call.fault = "none"
    /\ \/ ~IsGrammarVersion(pre.versionFile.version)
       \/ call.arg \notin {"major", "minor", "patch"}

\* C2: a bumpVersion call on a version outside the grammar, or with a kind other
\* than major/minor/patch, reports failure and leaves the version record file
\* exactly as it was.
C2_FailedBumpWritesNothing ==
    BumpFailureCase =>
        /\ call.outcome \in {"threw", "exited"}
        /\ call.stderr # ""
        /\ versionFile = pre.versionFile

\* an unrecognized kind on a valid version: process.exit(1), nothing written
C2_Witness ==
    /\ BumpFailureCase
    /\ call.arg = "bogus"
    /\ IsGrammarVersion(pre.versionFile.version)
    /\ call.outcome = "exited"

PriorBuild == IF pre.versionFile.build = None THEN 0 ELSE pre.versionFile.build[1]

\* C3: after fetchVersion returns, the stored build is the build stored before
\* the call plus 1, an absent build counting as 0.
C3_StampIncrementsBuild ==
    (call.op = "stamp" /\ call.outcome = "returned") =>
        versionFile.build = Some(PriorBuild + 1)

\* a stamp of a record without a build field
C3_Witness ==
    /\ call.op = "stamp"
    /\ call.outcome = "returned"
    /\ pre.versionFile.build = None
    /\ versionFile.build = Some(1)

(***************************************************************************)
(* The version assignment of Cargo.toml, stated on its own                 *)
(***************************************************************************)
\* the text from p reads  version, white space, =, white space, quote q, a value
\* without quotes, quote w
IsAssignment(s, p, q, w) ==
    /\ s[p] = "version"
    /\ s[q] = "\""
    /\ s[w] = "\""
    /\ \A k \in (q + 1)..(w - 1) : s[k] # "\""
    /\ \E e \in (p + 1)..(q - 1) :
          /\ s[e] = "="
          /\ \A k \in ((p + 1)..(q - 1)) \ {e} : IsSpace(s[k])

AssignmentsAt(s, p) ==
    {qw \in ((p + 1)..Len(s)) \X ((p + 1)..Len(s)) :
        qw[1] < qw[2] /\ IsAssignment(s, p, qw[1], qw[2])}

AssignmentStarts(s) == {p \in 1..Len(s) : s[p] = "version" /\ AssignmentsAt(s, p) # {}}

\* a key starts its line: only blanks between it and the start of the line
StartsLine(s, p) ==
    \E b \in 0..(p - 1) :
        /\ b = 0 \/ s[b] = "\n"
        /\ \A k \in (b + 1)..(p - 1) : s[k] = " "

\* the assignments whose key is  version  itself, not the tail of a longer key
VersionKeys(s) == {p \in AssignmentStarts(s) : StartsLine(s, p)}

Least(S) == CHOOSE x \in S : \A y \in S : x <= y

ValueAt(s, p) ==
    LET qw == CHOOSE x \in AssignmentsAt(s, p) : TRUE
    IN  SubSeq(s, qw[1] + 1, qw[2] - 1)

SyncReturned == call.op = "sync" /\ call.outcome = "returned"

StartsWith(s, t) == Len(s) >= Len(t) /\ SubSeq(s, 1, Len(t)) = t

\* a manifest made of whole lines, each  version = "..."  or  rust-version = "..."
RECURSIVE IsManifest(_)
IsManifest(s) ==
    \/ s = <<>>
    \/ StartsWith(s, AssignLine) /\ IsManifest(SubSeq(s, Len(AssignLine) + 1, Len(s)))
    \/ /\ StartsWith(s, <<"rust-">> \o AssignLine)
       /\ IsManifest(SubSeq(s, Len(AssignLine) + 2, Len(s)))

\* C4: after syncVersion returns, package.json's version and the value of
\* Cargo.toml's version key both equal the version of the record, whatever the two
\* manifests held before (stated here for manifests made of whole key lines).
C4_ManifestsEqualRecord ==
    (SyncReturned /\ IsManifest(pre.cargoToml.text)) =>
        /\ pkgJson.version = Some(versionFile.version)
        /\ VersionKeys(cargoToml.text) # {} =>
              ValueAt(cargoToml.text, Least(VersionKeys(cargoToml.text))) = versionFile.version

\* C5: the substitution changes only the value between the quotes of the first
\* version = "..." assignment; the text before and after it is kept, and a text
\* without such an assignment is left unchanged.
C5_OnlyValueSpanChanges ==
    SyncReturned =>
        LET old == pre.cargoToml.text
            new == cargoToml.text
        IN  IF AssignmentStarts(old) = {} THEN new = old
            ELSE LET p == Least(AssignmentStarts(old))
                     qw == CHOOSE x \in AssignmentsAt(old, p) : TRUE
                     tail == Len(old) - qw[2] + 1
                 IN  /\ Len(new) >= qw[1] + tail
                     /\ SubSeq(new, 1, qw[1]) = SubSeq(old, 1, qw[1])
                     /\ SubSeq(new, Len(new) - tail + 1, Len(new)) = SubSeq(old, qw[2], Len(old))
                     /\ SubSeq(new, qw[1] + 1, Len(new) - tail) = versionFile.version

\* a text with two assignments, the first one behind a longer key: only the first
\* value is rewritten, with a version that starts with the digits 1 and 0
C5_Witness ==
    /\ SyncReturned
    /\ pre.cargoToml.text = <<"rust-">> \o AssignLine \o AssignLine
    /\ versionFile.version = <<"1", "0", ".", "0", ".", "0", "-", "r", "c", ".", "1">>
    /\ cargoToml.text = <<"rust-", "version", "=", "\"">> \o versionFile.version
                        \o <<"\"", "\n">> \o AssignLine

(***************************************************************************)
(* index.ts: the release command                                           *)
(***************************************************************************)
\* process.argv[2] || "patch" : a missing and an empty argument are both falsy
bumpTypeOf(argv) == IF argv = None \/ argv[1] = "" THEN "patch" ELSE argv[1]

\* a handler that logs the error and goes on with the next step
afterStepSwallow(outcome, nextPc) == nextPc

\* the control flow of try { await ...; await ...; } catch { process.exit(1) } and of
\* process.exit(1) inside bumpVersion: a step that does not return ends the process
afterStep(outcome, nextPc) == IF outcome = "returned" THEN nextPc ELSE "exited"

\* what the process has printed and its exit code after a step ended with outcome;
\* fault is the file operation of the step that the environment made fail
releaseAfter(step, outcome, message, nextPc, fault) ==
    [rel EXCEPT !.pc = afterStep(outcome, nextPc),
                !.fault = fault,
                !.ran = Append(@, step),
                !.ok = IF outcome = "returned" THEN Append(@, step) ELSE @,
                !.stderr = IF outcome = "returned" THEN @ ELSE Append(@, message),
                !.exitCode = IF outcome = "returned" THEN @ ELSE Some(1)]

\* const newVersion = await bumpVersion(bumpType, projectVersionPath)
ReleaseBump(ioFault) ==
    LET r == bumpVersion(rel.bumpType, versionFile, ioFault)
    IN  /\ rel.pc = "bump"
        /\ versionFile' = r.file
        /\ rel' = [releaseAfter("bump", r.outcome, r.stderr, "stamp", ioFault) EXCEPT !.newVersion = r.ret]
        /\ UNCHANGED <<pkgJson, cargoToml, call, pre, post, cp>>

\* await fetchVersion(projectVersionPath)
ReleaseStamp(git, ioFault) ==
    LET r == fetchVersion(versionFile, git, ioFault)
    IN  /\ rel.pc = "stamp"
        /\ versionFile' = r.file
        /\ rel' = releaseAfter("stamp", r.outcome, "Error updating project version", "sync", ioFault)
        /\ UNCHANGED <<pkgJson, cargoToml, call, pre, post, cp>>

\* await syncVersion(projectVersionPath); console.log(newVersion); the process then
\* ends with exit code 0
ReleaseSync(ioFault) ==
    LET r == syncVersion(versionFile, pkgJson, cargoToml, ioFault)
        after == releaseAfter("sync", r.outcome, "Error updating project version", "done",
                              ioFault)
    IN  /\ rel.pc = "sync"
        /\ pkgJson' = r.pkg
        /\ cargoToml' = r.cargo
        /\ rel' = IF after.pc = "done"
                  THEN [after EXCEPT !.stdout = Append(@, rel.newVersion),
                                     !.exitCode = IF @ = None THEN Some(0) ELSE @]
                  ELSE after
        /\ UNCHANGED <<versionFile, call, pre, post, cp>>

ReleaseVersions ==
    { <<"1", ".", "2", ".", "3">>,
      <<"0", ".", "9", ".", "9", "-", "r", "c", ".", "1">>,
      <<"v", "1", ".", "2", ".", "3">> }

ReleaseCargoTexts ==
    { AssignLine,
      <<"rust-">> \o AssignLine \o AssignLine,
      <<"rust-", "=", "\"", "0", "\"", "\n">> }

Init ==
    /\ versionFile \in {VersionRecord(v, b, None) : v \in ReleaseVersions, b \in {None, Some(5)}}
                       \cup {MissingVersionFile}
    /\ pkgJson \in {[exists |-> TRUE, name |-> "devapack", version |-> Some(<<"0", ".", "0", ".", "1">>)],
                    MissingPkg}
    /\ cargoToml \in {[exists |-> TRUE, text |-> t] : t \in ReleaseCargoTexts} \cup {MissingCargo}
    /\ \E argv \in {None} \cup {Some(t) : t \in BumpTypes} :
          rel = [RelOff EXCEPT !.pc = "bump", !.argv = argv, !.bumpType = bumpTypeOf(argv)]
    /\ call = NoCall
    /\ pre = Files
    /\ post = PostOff
    /\ cp = CpOff

Next ==
    \/ \E ioFault \in {"none", "read", "write"} : ReleaseBump(ioFault)
    \/ \E git \in {None} \cup {Some(c) : c \in Commits}, ioFault \in {"none", "read", "write"} :
          ReleaseStamp(git, ioFault)
    \/ \E ioFault \in {"none", "readVersion", "writePkg", "writeCargo"} : ReleaseSync(ioFault)

Spec == Init /\ [][Next]_vars

ReleaseOrder == <<"bump", "stamp", "sync">>

IsPrefix(a, b) == Len(a) <= Len(b) /\ SubSeq(b, 1, Len(a)) = a

\* C6: the release command runs bump, stamp, sync in that order; after a failed
\* step no later step runs, an error is printed and the exit code is 1; the new
\* version is printed only when all three steps succeeded.
C6_ReleaseStepsInOrder ==
    /\ IsPrefix(rel.ran, ReleaseOrder)
    /\ IsPrefix(rel.ok, rel.ran)
    /\ Len(rel.ran) <= Len(rel.ok) + 1
    /\ Len(rel.ran) > Len(rel.ok) =>
          /\ rel.pc = "exited"
          /\ rel.exitCode = Some(1)
          /\ rel.stderr # <<>>
          /\ rel.stdout = <<>>
    /\ rel.stdout # <<>> =>
          /\ rel.ok = ReleaseOrder
          /\ rel.stdout = <<rel.newVersion>>
          /\ rel.exitCode = Some(0)
    /\ rel.ok = ReleaseOrder => rel.stdout = <<versionFile.version>>

\* the stamp step failed after a successful bump: sync never ran, exit code 1
C6_Witness ==
    /\ rel.pc = "exited"
    /\ rel.ran = <<"bump", "stamp">>
    /\ rel.ok = <<"bump">>
    /\ rel.exitCode = Some(1)
    /\ versionFile.version # pre.versionFile.version

(***************************************************************************)
(* postinstall.ts: the binary download                                     *)
(***************************************************************************)
ExecMode == 493   \* 0o755, rwxr-xr-x

Platforms == {"win32", "darwin", "linux", "freebsd", "aix", "android"}

Statuses == {200, 201, 204, 301, 403, 404, 500, 503}

\* a switch whose unknown platforms fall into the linux case
binaryNameOfDefaultLinux(platform) ==
    CASE platform = "win32" -> "devapack-x86_64-pc-windows-msvc.exe"
      [] platform = "darwin" -> "devapack-x86_64-apple-darwin"
      [] OTHER -> "devapack-x86_64-unknown-linux-gnu"

\* switch (platform): binaryName stays "" for every other platform
binaryNameOf(platform) ==
    CASE platform = "win32" -> "devapack-x86_64-pc-windows-msvc.exe"
      [] platform = "darwin" -> "devapack-x86_64-apple-darwin"
      [] platform = "linux" -> "devapack-x86_64-unknown-linux-gnu"
      [] OTHER -> ""

\* a policy that reports a missing asset like every other refused download
responsePolicyNoWarning(status) == IF status # 200 THEN "error" ELSE "download"

\* a callback that skips server errors only
responsePolicyServerErrors(status) ==
    IF status = 404 THEN "warn"
    ELSE IF status >= 500 THEN "error"
    ELSE "download"

\* the two status tests of the https.get callback
responsePolicy(status) ==
    IF status = 404 THEN "warn"
    ELSE IF status # 200 THEN "error"
    ELSE "download"

LogLine(level, text, detail) == [level |-> level, text |-> text, detail |-> detail]

\* the top-level code of the script: read the record, resolve the platform, create
\* the bin directory and start the request.  An exception here is uncaught.
PostinstallMain(mkdirFails) ==
    LET binaryName == binaryNameOf(post.platform)
        crash == [post EXCEPT !.pc = "done", !.raised = TRUE, !.exitCode = Some(1)]
    IN  /\ post.pc = "start"
        /\ post' =
              IF ~versionFile.exists THEN crash
              ELSE IF binaryName = ""
              THEN [post EXCEPT !.pc = "done", !.exitCode = Some(0),
                                !.log = Append(@, LogLine("error", "Unsupported platform", post.platform))]
              ELSE IF mkdirFails /\ ~post.binDir THEN [crash EXCEPT !.binaryName = binaryName]
              ELSE [post EXCEPT !.pc = "waiting",
                                !.binaryName = binaryName,
                                !.binDir = TRUE,
                                !.request = Some([version |-> versionFile.version, artifact |-> binaryName]),
                                !.log = Append(@, LogLine("log", "Downloading", binaryName))]
        /\ UNCHANGED <<versionFile, pkgJson, cargoToml, call, pre, rel, cp>>

\* the https.get callback
PostinstallResponse(status) ==
    LET policy == responsePolicy(status)
        opened == IF post.destFile = None
                  THEN Some([content |-> "", mode |-> ExecMode])
                  ELSE Some([post.destFile[1] EXCEPT !.content = ""])
    IN  /\ post.pc = "waiting"
        /\ post' =
              CASE policy = "warn" ->
                     [post EXCEPT !.pc = "done", !.status = Some(status), !.exitCode = Some(0),
                                  !.log = Append(@, LogLine("warn", "Asset not found. Skipping binary download.", ""))]
                [] policy = "error" ->
                     [post EXCEPT !.pc = "done", !.status = Some(status), !.exitCode = Some(0),
                                  !.log = Append(@, LogLine("error", "Failed. Skipping binary download.", ""))]
                [] OTHER ->
                     [post EXCEPT !.pc = "streaming", !.status = Some(status), !.destFile = opened]
        /\ UNCHANGED <<versionFile, pkgJson, cargoToml, call, pre, rel, cp>>

\* the "error" handler of the request
PostinstallError ==
    /\ post.pc = "waiting"
    /\ post' = [post EXCEPT !.pc = "done", !.netError = TRUE, !.exitCode = Some(0),
                            !.log = Append(@, LogLine("error", "Error. Skipping binary download.", ""))]
    /\ UNCHANGED <<versionFile, pkgJson, cargoToml, call, pre, rel, cp>>

\* the "finish" handler of the write stream
PostinstallFinish ==
    /\ post.pc = "streaming"
    /\ post' = [post EXCEPT !.pc = "done", !.exitCode = Some(0),
                            !.destFile = Some([@[1] EXCEPT !.content = post.binaryName]),
                            !.log = Append(@, LogLine("log", "Downloaded", post.binaryName))]
    /\ UNCHANGED <<versionFile, pkgJson, cargoToml, call, pre, rel, cp>>

PostStart(platform, binDir, destFile) ==
    [pc |-> "start", platform |-> platform, binaryName |-> "", binDir |-> binDir,
     binDir0 |-> binDir, destFile |-> destFile, destFile0 |-> destFile, request |-> None,
     status |-> None, netError |-> FALSE, log |-> <<>>, raised |-> FALSE, exitCode |-> None]

InitPostinstall ==
    /\ versionFile \in {VersionRecord(v, Some(1), None) : v \in SyncVersions} \cup {MissingVersionFile}
    /\ pkgJson = MissingPkg
    /\ cargoToml = MissingCargo
    /\ call = NoCall
    /\ pre = Files
    /\ rel = RelOff
    /\ cp = CpOff
    /\ \E platform \in Platforms, binDir \in BOOLEAN,
          destFile \in {None, Some([content |-> "old", mode |-> 420])} :
          /\ destFile # None => binDir
          /\ post = PostStart(platform, binDir, destFile)

NextPostinstall ==
    \/ \E mkdirFails \in BOOLEAN : PostinstallMain(mkdirFails)
    \/ \E status \in Statuses : PostinstallResponse(status)
    \/ PostinstallError
    \/ PostinstallFinish

SpecPostinstall == InitPostinstall /\ [][NextPostinstall]_vars

Is2xx(status) == status >= 200 /\ status <= 299

\* the download ended with a 404, another non-2xx status or a transport error
DownloadSkipCase ==
    /\ post.pc = "done"
    /\ post.request # None
    /\ \/ post.netError
       \/ post.status # None /\ ~Is2xx(post.status[1])

ArtifactNames ==
    [win32 |-> "devapack-x86_64-pc-windows-msvc.exe",
     darwin |-> "devapack-x86_64-apple-darwin",
     linux |-> "devapack-x86_64-unknown-linux-gnu"]

\* the script got as far as the platform switch
PlatformResolved == post.pc # "start" /\ versionFile.exists

\* C8: win32, darwin and linux map to their artifact names; for any other platform
\* an unsupported-platform error is reported, no download starts, no directory is
\* created, no file is written and the script ends with exit code 0.
C8_PlatformResolution ==
    PlatformResolved =>
        IF post.platform \in DOMAIN ArtifactNames
        THEN post.binaryName = ArtifactNames[post.platform]
        ELSE /\ post.pc = "done"
             /\ post.log = <<LogLine("error", "Unsupported platform", post.platform)>>
             /\ post.request = None
             /\ post.binDir = post.binDir0
             /\ post.destFile = post.destFile0
             /\ ~post.raised
             /\ post.exitCode = Some(0)

\* freebsd, with no bin directory: nothing is created
C8_Witness ==
    /\ PlatformResolved
    /\ post.platform = "freebsd"
    /\ ~post.binDir
    /\ post.pc = "done"

(***************************************************************************)
(* copy-to-binary.ts: copy the version record next to a binary             *)
(*                                                                         *)
(* A path is the sequence of its names below the root; a name is a         *)
(* sequence of characters.  The file system maps each existing path to     *)
(* its kind and content.                                                   *)
(***************************************************************************)
MaxOpts == 2

Dot == <<".">>
DotDot == <<".", ".">>

RecordName == <<"p", ".", "j">>   \* project-version.json

Root == <<>>
Cwd == <<<<"w">>>>
RepoRoot == <<<<"r">>>>

\* path.resolve(__dirname, "..", "..", "..", "project-version.json")
defaultSource == Append(RepoRoot, RecordName)

Flag(f) == [flag |-> f, abs |-> FALSE, parts |-> <<>>]
Abs(parts) == [flag |-> "", abs |-> TRUE, parts |-> parts]
Rel(parts) == [flag |-> "", abs |-> FALSE, parts |-> parts]

\* the text of a flag read as a file name
FlagChars(f) ==
    CASE f = "--source" -> <<"-", "-", "s">>
      [] f = "--binary" -> <<"-", "-", "b">>
      [] f = "--out-dir" -> <<"-", "-", "o">>
      [] f = "--help" -> <<"-", "-", "h">>
      [] f = "-h" -> <<"-", "h">>
      [] OTHER -> <<"-", "-", "x">>

RECURSIVE normalize(_, _)
normalize(parts, acc) ==
    IF parts = <<>> THEN acc
    ELSE IF Head(parts) = Dot THEN normalize(Tail(parts), acc)
    ELSE IF Head(parts) = DotDot
    THEN normalize(Tail(parts), IF acc = <<>> THEN acc ELSE SubSeq(acc, 1, Len(acc) - 1))
    ELSE normalize(Tail(parts), Append(acc, Head(parts)))

\* path.resolve(arg), for the argument given as a token of argv
resolve(tok) ==
    IF tok.flag # "" THEN Append(Cwd, FlagChars(tok.flag))
    ELSE normalize(tok.parts, IF tok.abs THEN Root ELSE Cwd)

\* path.dirname
dirname(path) == IF path = Root THEN Root ELSE SubSeq(path, 1, Len(path) - 1)

LastDotOf(name) ==
    IF \E i \in 1..Len(name) : name[i] = "."
    THEN CHOOSE i \in 1..Len(name) : name[i] = "." /\ \A j \in (i + 1)..Len(name) : name[j] # "."
    ELSE 0

\* path.extname: from the last dot of the last name, unless that dot starts the name
extname(path) ==
    IF path = Root THEN <<>>
    ELSE LET name == path[Len(path)]
             d == LastDotOf(name)
         IN  IF d <= 1 \/ name = DotDot THEN <<>> ELSE SubSeq(name, d, Len(name))

\* the for loop over argv; it stops at process.exit
RECURSIVE parseArgs(_, _, _)
parseArgs(argv, i, st) ==
    IF i > Len(argv) THEN st
    ELSE LET a == argv[i].flag
             value == IF i + 1 <= Len(argv) THEN Some(argv[i + 1]) ELSE None
         IN  CASE a = "--source" -> parseArgs(argv, i + 2, [st EXCEPT !.sourceArg = value])
               [] a = "--binary" -> parseArgs(argv, i + 2, [st EXCEPT !.binaryArg = value])
               [] a = "--out-dir" -> parseArgs(argv, i + 2, [st EXCEPT !.outDirArg = value])
               [] a = "--help" \/ a = "-h" -> [st EXCEPT !.pc = "exited", !.exitCode = Some(0)]
               [] OTHER -> [st EXCEPT !.pc = "exited", !.exitCode = Some(1),
                                      !.stderr = Append(@, "Unknown arg")]

\* a resolution that forgets to look at the file system
destDirOfNoStat(fs, binaryArg, outDirArg) ==
    IF binaryArg # None
    THEN LET binPath == resolve(binaryArg[1])
         IN  IF extname(binPath) # <<>> THEN Some(dirname(binPath)) ELSE Some(binPath)
    ELSE IF outDirArg # None THEN Some(resolve(outDirArg[1]))
    ELSE Some(Cwd)

\* the if / else if / else that sets destDir (null before it)
destDirOf(fs, binaryArg, outDirArg) ==
    IF binaryArg # None
    THEN LET binPath == resolve(binaryArg[1])
         IN  IF binPath \in DOMAIN fs /\ fs[binPath].kind = "file" THEN Some(dirname(binPath))
             ELSE IF extname(binPath) # <<>> THEN Some(dirname(binPath))
             ELSE Some(binPath)
    ELSE IF outDirArg # None THEN Some(resolve(outDirArg[1]))
    ELSE Some(Cwd)

\* the proper prefixes of a path, the root included
Ancestors(path) == {SubSeq(path, 1, k) : k \in 0..(Len(path) - 1)}

\* fs.mkdirSync(path, { recursive: true }) raises when a file is in the way
mkdirFails(fs, path) ==
    \E a \in Ancestors(path) \cup {path} : a \in DOMAIN fs /\ fs[a].kind = "file"

mkdirSync(fs, path) ==
    [x \in DOMAIN fs \cup Ancestors(path) \cup {path} |->
        IF x \in DOMAIN fs THEN fs[x] ELSE [kind |-> "dir", data |-> ""]]

\* fs.copyFileSync(src, dst) raises for a directory at either end and for a
\* destination whose parent is not a directory
copyFails(fs, src, dst) ==
    \/ src \notin DOMAIN fs
    \/ fs[src].kind # "file"
    \/ dirname(dst) \notin DOMAIN fs
    \/ fs[dirname(dst)].kind # "dir"
    \/ dst \in DOMAIN fs /\ fs[dst].kind # "file"

copyFileSync(fs, src, dst) ==
    [x \in DOMAIN fs \cup {dst} |-> IF x = dst THEN fs[src] ELSE fs[x]]

\* a script that tells a failed copy from a successful one by its message only
exitCodeOfCopyAlwaysZero(failed) == 0

\* process.exit(0) at the end of the try block, process.exit(4) in the catch block
exitCodeOfCopy(failed) == IF failed THEN 4 ELSE 0

CopyFrame == UNCHANGED <<versionFile, pkgJson, cargoToml, call, pre, rel, post>>

\* lines 9-23: the argument loop
CopyParseArgs ==
    /\ cp.pc = "parse"
    /\ cp' = parseArgs(cp.argv, 1, [cp EXCEPT !.pc = "source"])
    /\ CopyFrame

\* lines 33-40: the source must exist
CopyCheckSource ==
    LET sourcePath == IF cp.sourceArg # None THEN resolve(cp.sourceArg[1]) ELSE defaultSource
    IN  /\ cp.pc = "source"
        /\ cp' = IF sourcePath \notin DOMAIN cp.fs
                 THEN [cp EXCEPT !.pc = "exited", !.exitCode = Some(2), !.sourcePath = Some(sourcePath),
                                 !.stderr = Append(@, "Source project-version.json not found")]
                 ELSE [cp EXCEPT !.pc = "resolve", !.sourcePath = Some(sourcePath)]
        /\ CopyFrame

\* lines 42-68: the destination directory
CopyResolveDest ==
    LET destDir == destDirOf(cp.fs, cp.binaryArg, cp.outDirArg)
    IN  /\ cp.pc = "resolve"
        /\ cp' = IF destDir = None
                 THEN [cp EXCEPT !.pc = "exited", !.exitCode = Some(3),
                                 !.stderr = Append(@, "Could not resolve destination directory")]
                 ELSE [cp EXCEPT !.pc = "copy", !.destDir = destDir]
        /\ CopyFrame

\* lines 70-82: create the directory, copy the record.  ioFault is an I/O error of
\* the operating system (permissions, full disk) in mkdirSync or copyFileSync.
CopyToDest(ioFault) ==
    LET destDir == cp.destDir[1]
        destPath == Append(destDir, RecordName)
        needDir == destDir \notin DOMAIN cp.fs
        dirFailed == needDir /\ (mkdirFails(cp.fs, destDir) \/ ioFault = "mkdir")
        fs1 == IF needDir /\ ~dirFailed THEN mkdirSync(cp.fs, destDir) ELSE cp.fs
        copyFailed == copyFails(fs1, cp.sourcePath[1], destPath) \/ ioFault = "copy"
        failed == dirFailed \/ copyFailed
        fs2 == IF failed THEN fs1 ELSE copyFileSync(fs1, cp.sourcePath[1], destPath)
    IN  /\ cp.pc = "copy"
        /\ cp' = [cp EXCEPT !.pc = "exited",
                            !.fs = fs2,
                            !.exitCode = Some(exitCodeOfCopy(failed)),
                            !.stdout = IF failed THEN @ ELSE Append(@, "project-version.json copied"),
                            !.stderr = IF failed THEN Append(@, "Failed to copy project-version.json") ELSE @]
        /\ CopyFrame

NameB == <<"b">>
NameT == <<"t">>
NameE == <<"t", ".", "e">>
NameD == <<".", "d">>

OtherSource == <<<<"w">>, <<"s">>>>

Entry(kind, data) == [kind |-> kind, data |-> data]

\* a file system: the repository's record present or not, /b absent, a file or a
\* directory, and in it the entries t and t.e
FsOf(rec, b, t, e) ==
    LET dom == {Root, Cwd, RepoRoot, OtherSource}
               \cup (IF rec THEN {defaultSource} ELSE {})
               \cup (IF b # "none" THEN {<<NameB>>} ELSE {})
               \cup (IF t # "none" THEN {<<NameB, NameT>>} ELSE {})
               \cup (IF e # "none" THEN {<<NameB, NameE>>} ELSE {})
    IN  [x \in dom |->
            CASE x = defaultSource -> Entry("file", "record")
              [] x = OtherSource -> Entry("file", "other record")
              [] x = <<NameB>> -> Entry(b, "")
              [] x = <<NameB, NameT>> -> Entry(t, "")
              [] x = <<NameB, NameE>> -> Entry(e, "")
              [] OTHER -> Entry("dir", "")]

Kinds == {"none", "file", "dir"}

FileSystems ==
    {FsOf(rec, b, t, e) : rec \in BOOLEAN,
                          b \in Kinds,
                          t \in Kinds,
                          e \in Kinds}

\* an entry below /b needs /b to be a directory
WellFormed(fs) ==
    \A x \in DOMAIN fs : x # Root => dirname(x) \in DOMAIN fs /\ fs[dirname(x)].kind = "dir"

Options ==
    {<<Flag("--binary"), v>> : v \in {Abs(<<NameB, NameT>>), Abs(<<NameB, NameE>>), Abs(<<NameB>>),
                                      Abs(<<NameB, NameD>>), Rel(<<NameB, DotDot, NameE>>)}}
    \cup {<<Flag("--out-dir"), v>> : v \in {Abs(<<NameB, NameT>>), Rel(<<<<"o">>>>)}}
    \cup {<<Flag("--source"), v>> : v \in {Abs(OtherSource), Abs(<<<<"m">>>>), Abs(RepoRoot)}}
    \cup {<<Flag("--help")>>, <<Flag("-h")>>, <<Flag("--bogus")>>, <<Flag("--binary")>>, <<Rel(<<NameT>>)>>}

RECURSIVE Argvs(_)
Argvs(n) ==
    IF n = 0 THEN {<<>>}
    ELSE Argvs(n - 1) \cup {a \o o : a \in Argvs(n - 1), o \in Options}

CpStart(argv, fs) ==
    [pc |-> "parse", argv |-> argv, fs |-> fs, fs0 |-> fs, sourceArg |-> None,
     binaryArg |-> None, outDirArg |-> None, sourcePath |-> None, destDir |-> None,
     exitCode |-> None, stdout |-> <<>>, stderr |-> <<>>]

InitCopy ==
    /\ versionFile = MissingVersionFile
    /\ pkgJson = MissingPkg
    /\ cargoToml = MissingCargo
    /\ call = NoCall
    /\ pre = Files
    /\ rel = RelOff
    /\ post = PostOff
    /\ \E argv \in Argvs(MaxOpts), fs \in {f \in FileSystems : WellFormed(f)} : cp = CpStart(argv, fs)

NextCopy ==
    \/ CopyParseArgs
    \/ CopyCheckSource
    \/ CopyResolveDest
    \/ \E ioFault \in {"none", "mkdir", "copy"} : CopyToDest(ioFault)

SpecCopy == InitCopy /\ [][NextCopy]_vars

\* the last name of the path has a dot after its first character
HasExtensionSuffix(path) ==
    /\ path # Root
    /\ \E i \in 2..Len(path[Len(path)]) : path[Len(path)][i] = "."

\* the destination directory as the resolution rule states it, on the file system
\* the command started with
RuleDest ==
    IF cp.binaryArg # None
    THEN LET P == resolve(cp.binaryArg[1])
         IN  IF P \in DOMAIN cp.fs0 /\ cp.fs0[P].kind = "file" THEN dirname(P)
             ELSE IF HasExtensionSuffix(P) THEN dirname(P)
             ELSE P
    ELSE IF cp.outDirArg # None THEN resolve(cp.outDirArg[1])
    ELSE Cwd

\* the record of the source is at <destination>/project-version.json
CopiedTo(dir) ==
    /\ cp.sourcePath # None
    /\ dir \in DOMAIN cp.fs
    /\ cp.fs[dir].kind = "dir"
    /\ Append(dir, RecordName) \in DOMAIN cp.fs
    /\ cp.fs[Append(dir, RecordName)] = cp.fs0[cp.sourcePath[1]]
    /\ cp.fs[Append(dir, RecordName)].kind = "file"

KnownFlags == {"--source", "--binary", "--out-dir", "--help", "-h"}

HelpGiven == \E i \in 1..Len(cp.argv) : cp.argv[i].flag \in {"--help", "-h"}

UnknownGiven == \E i \in 1..Len(cp.argv) : cp.argv[i].flag \notin KnownFlags

Copied == cp.destDir # None /\ CopiedTo(cp.destDir[1])

\* what the exit codes 1 to 4 stand for, and what they leave on disk
FailureExitCodes ==
    /\ cp.exitCode \in {Some(0), Some(1), Some(2), Some(3), Some(4)}
    /\ cp.exitCode = Some(1) => UnknownGiven /\ cp.sourcePath = None
    /\ cp.exitCode = Some(2) => cp.sourcePath # None /\ cp.sourcePath[1] \notin DOMAIN cp.fs0
    /\ (cp.sourcePath # None /\ cp.sourcePath[1] \notin DOMAIN cp.fs0) => cp.exitCode = Some(2)
    /\ cp.exitCode = Some(3) => cp.sourcePath # None /\ cp.destDir = None
    /\ cp.exitCode = Some(4) =>
          /\ cp.destDir # None
          /\ cp.stdout = <<>>
          /\ cp.stderr # <<>>
          /\ Append(cp.destDir[1], RecordName) \in DOMAIN cp.fs =>
                Append(cp.destDir[1], RecordName) \in DOMAIN cp.fs0
    /\ cp.exitCode \in {Some(1), Some(2), Some(3)} => cp.fs = cp.fs0 /\ cp.stderr # <<>>

\* C10 as claimed: every run ends with one of the exit codes 0 to 4, 0 when the
\* record was copied, 1 for an unknown flag, 2 for a missing source, 3 for an
\* unresolved destination, 4 for a failed mkdir or copy; nothing is created or
\* copied on exits 1, 2 and 3.
C10_ExitCodesAsClaimed ==
    cp.pc = "exited" =>
        /\ FailureExitCodes
        /\ cp.exitCode = Some(0) => Copied

\* C10 as amended: exit code 0 also ends a run that met --help or -h, and such a
\* run copies nothing.
C10_ExitCodes ==
    cp.pc = "exited" =>
        /\ FailureExitCodes
        /\ cp.exitCode = Some(0) =>
              \/ Copied /\ cp.stdout # <<>>
              \/ HelpGiven /\ cp.fs = cp.fs0 /\ cp.stdout = <<>>
        /\ Copied /\ cp.stdout # <<>> => cp.exitCode = Some(0)

\* --binary /b/t --help: exit code 0 and nothing copied
C10_Witness ==
    /\ cp.pc = "exited"
    /\ cp.exitCode = Some(0)
    /\ cp.argv = <<Flag("--binary"), Abs(<<NameB, NameT>>), Flag("--help")>>
    /\ cp.fs = cp.fs0
    /\ ~Copied

(***************************************************************************)
(* C11: fetch.ts, the catch around `git rev-parse HEAD`                    *)
(***************************************************************************)
\* a stamp whose revision lookup raised while the record itself was readable
\* and writable
RevisionUnreadableCase ==
    /\ call.op = "stamp"
    /\ call.git = None
    /\ call.fault = "none"
    /\ pre.versionFile.exists

\* C11: when `git rev-parse HEAD` fails during fetchVersion, the call still
\* returns: a warning is emitted, lastCommit keeps the value it had (or stays
\* absent), and the incremented build is written to the record.
C11_StampSurvivesMissingRevision ==
    RevisionUnreadableCase =>
        /\ call.outcome = "returned"
        /\ call.warned
        /\ versionFile.lastCommit = pre.versionFile.lastCommit
        /\ versionFile.build = Some(PriorBuild + 1)
        /\ versionFile = [pre.versionFile EXCEPT !.build = versionFile.build]

\* a record that carried a commit and build 2 is stamped without git
C11_Witness ==
    /\ RevisionUnreadableCase
    /\ pre.versionFile.lastCommit = Some(<<"c", "0">>)
    /\ pre.versionFile.build = Some(2)
    /\ versionFile.lastCommit = Some(<<"c", "0">>)
    /\ versionFile.build = Some(3)
    /\ call.warned

(***************************************************************************)
(* C12: sync.ts inside the release command, no rollback                    *)
(***************************************************************************)
\* the release reached sync after a successful bump and stamp; sync wrote
\* package.json and then failed on Cargo.toml, which was missing or unwritable
SecondManifestFailedCase ==
    /\ rel.ran = ReleaseOrder
    /\ rel.ok = <<"bump", "stamp">>
    /\ pkgJson.exists
    /\ \/ rel.fault = "writeCargo"
       \/ rel.fault = "none" /\ ~cargoToml.exists

\* C12: when syncVersion fails on Cargo.toml after package.json was written,
\* package.json keeps the new version (it is not put back), Cargo.toml is as it
\* was, and the version record keeps the version written by the bump and the
\* build written by the stamp of the same release; the release exits with 1.
C12_SyncIsNotTransactional ==
    SecondManifestFailedCase =>
        /\ pkgJson.version = Some(rel.newVersion)
        /\ pkgJson.version # pre.pkgJson.version
        /\ cargoToml = pre.cargoToml
        /\ versionFile.version = rel.newVersion
        /\ versionFile.version # pre.versionFile.version
        /\ versionFile.build = Some(PriorBuild + 1)
        /\ rel.pc = "exited"
        /\ rel.exitCode = Some(1)

\* release "minor" of 1.2.3 with build 5 in a project without Cargo.toml
C12_Witness ==
    /\ SecondManifestFailedCase
    /\ ~cargoToml.exists
    /\ pre.versionFile.version = <<"1", ".", "2", ".", "3">>
    /\ pre.versionFile.build = Some(5)
    /\ versionFile.version = <<"1", ".", "3", ".", "0">>
    /\ versionFile.build = Some(6)
    /\ pkgJson.version = Some(<<"1", ".", "3", ".", "0">>)

(***************************************************************************)
(* C13: postinstall.ts, the branches of the https.get callback             *)
(***************************************************************************)
\* a response was received
ResponseCase == post.status # None

\* the last line the script has logged
LastLog == post.log[Len(post.log)]

\* the response was logged as refused and the destination is as it was
Skipped ==
    /\ post.pc = "done"
    /\ post.destFile = post.destFile0
    /\ LastLog.level \in {"warn", "error"}

\* the response is being written, or has been written, to binDir/binaryName; a
\* file the write stream had to create has mode rwxr-xr-x
Streamed ==
    /\ post.pc \in {"streaming", "done"}
    /\ post.destFile # None
    /\ post.request # None /\ post.request[1].artifact = post.binaryName
    /\ post.destFile0 = None => post.destFile[1].mode = ExecMode
    /\ post.pc = "done" =>
          /\ post.destFile[1].content = post.binaryName
          /\ LastLog = LogLine("log", "Downloaded", post.binaryName)

MaxCalls == 3

OpsBump(bumpType, ioFault) == call.n < MaxCalls /\ BumpCall(bumpType, ioFault)

OpsStamp(git, ioFault) == call.n < MaxCalls /\ StampCall(git, ioFault)

OpsSync(ioFault) == call.n < MaxCalls /\ SyncCall(ioFault)

InitOps ==
    /\ versionFile \in {VersionRecord(v, b, None) :
                            v \in {<<"1", ".", "2", ".", "3">>, <<"v", "1", ".", "2", ".", "3">>},
                            b \in {None, Some(0), Some(MaxBuild)}}
                       \cup {MissingVersionFile}
    /\ pkgJson = [exists |-> TRUE, name |-> "devapack", version |-> Some(<<"0", ".", "0", ".", "1">>)]
    /\ cargoToml \in {[exists |-> TRUE, text |-> AssignLine], MissingCargo}
    /\ pre = Files
    /\ OtherIdle

NextOps ==
    \/ \E bumpType \in {"major", "patch", "bogus"}, ioFault \in {"none", "write"} :
          OpsBump(bumpType, ioFault)
    \/ \E git \in {None, Some(<<"c", "1">>)}, ioFault \in {"none", "write"} :
          OpsStamp(git, ioFault)
    \/ \E ioFault \in {"none", "writeCargo"} : OpsSync(ioFault)

SpecOps == InitOps /\ [][NextOps]_vars

\* the build a record holds, an absent record or field counting as 0
BuildOf(file) == IF file.build = None THEN 0 ELSE file.build[1]

\* C14: whatever calls were made before, and whether the call returns or
\* fails, a call of bump, stamp or sync leaves a stored build that is not less
\* than the one it found; only stamp changes the build; bump changes only the
\* version field of the record; sync changes no field of the record.
C14_BuildOwnedByStamp ==
    call.n > 0 =>
        /\ BuildOf(versionFile) >= BuildOf(pre.versionFile)
        /\ versionFile.build # pre.versionFile.build => call.op = "stamp"
        /\ call.op = "bump" =>
              versionFile = [pre.versionFile EXCEPT !.version = versionFile.version]
        /\ call.op = "sync" => versionFile = pre.versionFile
        /\ call.outcome # "returned" => versionFile = pre.versionFile

\* a bump made after two stamps: the version changes, build and commit stay
C14_Witness ==
    /\ call.n = 3
    /\ call.op = "bump"
    /\ call.outcome = "returned"
    /\ pre.versionFile.build = Some(2)
    /\ pre.versionFile.lastCommit = Some(<<"c", "1">>)
    /\ versionFile.build = Some(2)
    /\ versionFile.lastCommit = Some(<<"c", "1">>)
    /\ versionFile.version # pre.versionFile.version

====
